---------------------------- MODULE Spec2Model ----------------------------
(***************************************************************************)
(* cnn-deblur: the data-preparation code of the repository.                *)
(*                                                                         *)
(*   SpecTile   datasets/dataset_utils.py  extract_patches,                *)
(*              reconstruct_image                                          *)
(*   SpecLoad   datasets/dataset_utils.py  load_dataset_from_gcs: listing, *)
(*              reading, the train/validation split (two calls)            *)
(*   SpecAug    datasets/dataset_utils.py  the random flips of a pair      *)
(*   SpecStream datasets/dataset_utils.py  shuffle, batch, repeat,         *)
(*              prefetch; cnn_deblur_reds.py  the loop of conv_net.fit     *)
(*   SpecCifar  utils/preproc_cifar.py  preproc_cifar (two runs)           *)
(*   SpecPatch  datasets/dataset_utils.py  extract_patches_from_dataset    *)
(*   SpecEpoch  datasets/dataset_utils.py  the cached split under the      *)
(*              passes of the repeated streams                             *)
(*   SpecBuffer datasets/dataset_utils.py  the split shuffle, its iterator *)
(*              run step by step on a corpus larger than its buffer        *)
(*                                                                         *)
(* Images are sequences of rows, a row a sequence of pixels.  A pixel      *)
(* stands for the whole innermost (channel) axis, which every operation    *)
(* modelled here moves as one block.                                       *)
(***************************************************************************)
EXTENDS Integers, Sequences, FiniteSets, TLC

VARIABLES
  \* extract_patches / reconstruct_image
  tpc,          \* "start" | "extracted" | "shape_error" | "reconstructed" | "index_error"
  res,          \* the res argument <<height, width>>
  image,        \* the image argument, of shape res
  patches,      \* what extract_patches returned
  patch_size,   \* the patch_size argument of reconstruct_image
  restored,     \* what reconstruct_image returned
  \* load_dataset_from_gcs: the bucket, the machine, and two calls (runs)
  bucket,       \* blob name -> number of records the blob holds
  cycle_length, \* what AUTOTUNE resolves num_parallel_reads to on this machine
  val_size,     \* the val_size argument (the same in both calls)
  lpc,          \* per call: "start" | "listed" | "read" | "split"
  seed,         \* per call: the seed argument
  tf_trainval,  \* per call: the file names handed to TFRecordDataset
  shuffle_seed, \* per call: the seed the split shuffle runs with
  trainval_data,\* per call: the elements of trainval_data before the shuffle
  train_data,   \* per call: the cached elements of train_data
  val_data,     \* per call: the cached elements of val_data
  \* the augmentation maps on one training pair after another
  apc,          \* "in" | "hflipped" | "vflipped"
  aug_seed,     \* the seed argument the flips close over
  aug_in,       \* the pair entering _random_horizontal_flip
  aug_h,        \* the pair _random_horizontal_flip returned
  aug_v,        \* the pair _random_vertical_flip returned
  do_flip,      \* the last do_flip of each map: [h |-> ..., v |-> ...]
  h_calls,      \* how often the random op of _random_horizontal_flip has run
  v_calls,      \* how often the random op of _random_vertical_flip has run
  outcomes,     \* the [h, v] decisions of the pairs that passed both maps
  \* the returned train and validation streams and the fit loop on them
  stream_cfg,   \* [batch_size, epochs, seed, fresh_val_iter]
  subsets,      \* [train |-> ..., val |-> ...]: the cached subsets
  returned,     \* [train |-> ..., val |-> ...]: the datasets returned, as stages
  iters,        \* per stream: [pass_no, rep, pos, buffer], the iterator
  fit,          \* [phase, epoch, step, batch], the loop of conv_net.fit
  \* preproc_cifar, run twice
  cifar,        \* [train |-> n, test |-> m]: the sizes of train_set and test_set
  cpc,          \* per run: "start" | "submitted" | "done"
  rnd,          \* per run: how many values the shared RandomState has given
  loop_i,       \* per run and task: the index i of the loop of preproc_subset
  predictor,    \* per run and task: the blurred images written so far
  cifar_out,    \* per run: [trainX, testX] as preproc_cifar returns them
  \* extract_patches_from_dataset on the parsed trainval_data
  ppc,          \* "start" | "unzipped" | "tiled" | "shape_error" | "flat" | "zipped"
  p_bucket,     \* blob name -> number of records
  p_files,      \* the file names handed to TFRecordDataset
  p_cycle,      \* what AUTOTUNE resolves num_parallel_reads to
  p_res,        \* the res argument
  datasetX,     \* the blurred side as the steps transform it
  datasetY,     \* the sharp side as the steps transform it
  zipped,       \* the dataset returned
  \* the cached split and the passes of the repeated streams
  epc,          \* "start" | "built"
  e_corpus,     \* the elements of trainval_data before the split shuffle
  e_seed,       \* the seed argument
  e_val_size,   \* the val_size argument
  e_epochs,     \* the epochs argument
  op_seed,      \* the seed each shuffle op runs with: [split, train, val]
  passes,       \* per stream: the passes made so far
  first_pass,   \* per stream: the elements of its first pass, in order
  last_pass,    \* per stream: the elements of its latest pass, in order
  \* the split of a corpus larger than the shuffle buffer
  bpc,          \* "start" | "train" | "val" | "split"
  b_corpus,     \* the elements of trainval_data, each its input position
  b_seed,       \* the seed argument
  b_val_size,   \* the val_size argument
  b_op_seed,    \* the seed the split shuffle runs with
  b_it,         \* the running shuffle iterator: [buffer, next_in, rng, out]
  b_train,      \* the elements of train_data
  b_val         \* the elements of val_data

tileVars == <<tpc, res, image, patches, patch_size, restored>>
loadVars == <<bucket, cycle_length, val_size, lpc, seed, tf_trainval,
              shuffle_seed, trainval_data, train_data, val_data>>

augVars == <<apc, aug_seed, aug_in, aug_h, aug_v, do_flip, h_calls, v_calls,
             outcomes>>

streamVars == <<stream_cfg, subsets, returned, iters, fit>>

cifarVars == <<cifar, cpc, rnd, loop_i, predictor, cifar_out>>

patchVars == <<ppc, p_bucket, p_files, p_cycle, p_res, datasetX, datasetY, zipped>>

epochVars == <<epc, e_corpus, e_seed, e_val_size, e_epochs, op_seed, passes, first_pass, last_pass>>

bufferVars == <<bpc, b_corpus, b_seed, b_val_size, b_op_seed, b_it, b_train, b_val>>

vars == <<tileVars, loadVars, augVars, streamVars, cifarVars, patchVars, epochVars, bufferVars>>

\* What the actions of one part leave alone: the variables of the others.
notTile == <<loadVars, augVars, streamVars, cifarVars, patchVars, epochVars, bufferVars>>
notLoad == <<tileVars, augVars, streamVars, cifarVars, patchVars, epochVars, bufferVars>>
notAug == <<tileVars, loadVars, streamVars, cifarVars, patchVars, epochVars, bufferVars>>
notStream == <<tileVars, loadVars, augVars, cifarVars, patchVars, epochVars, bufferVars>>
notCifar == <<tileVars, loadVars, augVars, streamVars, patchVars, epochVars, bufferVars>>
notPatch == <<tileVars, loadVars, augVars, streamVars, cifarVars, epochVars, bufferVars>>
notEpoch == <<tileVars, loadVars, augVars, streamVars, cifarVars, patchVars, bufferVars>>
notBuffer == <<tileVars, loadVars, augVars, streamVars, cifarVars, patchVars, epochVars>>

\* Absent value of a variable that holds nothing yet.
None == "None"

(***************************************************************************)
(* Bounds of the model.                                                    *)
(***************************************************************************)
MaxH == 7
MaxW == 9
MaxMod == 2
MaxGridRows == 4
MaxGridCols == 5
MaxBlobs == 2
MaxRecords == 2
MaxCycle == 2
MaxValSize == 2
MaxSeed == 1
MaxAugSide == 2
MaxAugCalls == 3
UniformRes == 8
MaxSubset == 3
MaxBatch == 2
MaxEpochs == 2
MaxPrefetch == 2
MaxCifar == 2
MaxCorpus == 4
MaxBigCorpus == 60
MaxBigSeed == 7

(***************************************************************************)
(* Tensors                                                                 *)
(***************************************************************************)
Height(img) == Len(img)
Width(img) == IF Len(img) = 0 THEN 0 ELSE Len(img[1])

\* The image of shape h x w whose pixel at (r, c) is its row-major rank
\* modulo m: m = h * w gives pairwise distinct pixels, m = 1 a flat image.
RampImage(h, w, m) ==
  [r \in 1..h |-> [c \in 1..w |-> ((r - 1) * w + (c - 1)) % m]]

ImagesOfShape(h, w) ==
  {RampImage(h, w, m) : m \in (1..MaxMod) \cup {h * w}}

RECURSIVE ConcatAxis0(_)
\* tf.concat(list, axis=0): the images stacked top to bottom.
ConcatAxis0(list) ==
  IF Len(list) = 0 THEN <<>>
  ELSE Head(list) \o ConcatAxis0(Tail(list))

RECURSIVE ConcatAxis1(_)
\* tf.concat(list, axis=1): the images side by side, row by row.
ConcatAxis1(list) ==
  IF Len(list) = 1 THEN Head(list)
  ELSE LET rest == ConcatAxis1(Tail(list))
       IN [r \in 1..Height(Head(list)) |-> Head(list)[r] \o rest[r]]

(***************************************************************************)
(* extract_patches(res, image)                                             *)
(***************************************************************************)
\* Number of window positions along an axis of length n for a window of
\* size k moved by stride k with padding 'VALID'.
ValidOutputSize(n, k) == ((n - k) \div k) + 1

\* tf.image.extract_patches on a batch of one image: the tensor of shape
\* [1, rows, cols, ph * pw * depth], here flattened in its memory order:
\* window row, window column, then the window's pixels row by row.
TfExtractPatchesFlat(img, ph, pw) ==
  LET rows == ValidOutputSize(Height(img), ph)
      cols == ValidOutputSize(Width(img), pw)
      n    == rows * cols * ph * pw
  IN [k \in 1..n |->
        LET z  == k - 1
            b  == z % pw
            a  == (z \div pw) % ph
            j  == (z \div (pw * ph)) % cols
            i  == z \div (pw * ph * cols)
        IN img[i * ph + a + 1][j * pw + b + 1]]

\* tf.reshape(flat, (n, ph, pw, depth)); defined when the sizes agree.
ReshapeOk(flat, n, ph, pw) == Len(flat) = n * ph * pw

Reshape(flat, n, ph, pw) ==
  [p \in 1..n |-> [a \in 1..ph |-> [b \in 1..pw |->
      flat[((p - 1) * ph + (a - 1)) * pw + b]]]]

\* The grid extract_patches cuts: 3 rows of 4 patches, 12 patches.
PATCH_ROWS == 3
PATCH_COLS == 4
PATCH_COUNT == 12

PatchHeight(rs) == rs[1] \div PATCH_ROWS
PatchWidth(rs) == rs[2] \div PATCH_COLS

\* extract_patches(res, image): [ok |-> FALSE] when tf.reshape raises.
extract_patches(rs, img) ==
  LET ph   == PatchHeight(rs)
      pw   == PatchWidth(rs)
      flat == TfExtractPatchesFlat(img, ph, pw)
  IN IF ReshapeOk(flat, PATCH_COUNT, ph, pw)
     THEN [ok |-> TRUE, patches |-> Reshape(flat, PATCH_COUNT, ph, pw)]
     ELSE [ok |-> FALSE, patches |-> <<>>]

(***************************************************************************)
(* reconstruct_image(image_patches, patch_size)                            *)
(***************************************************************************)
ReconstructIndexByRows(i, j) == i * 3 + j

\* The index reconstruct_image reads for grid position (i, j), 0-based.
ReconstructIndex(i, j) == i * 4 + j

\* Whether every index read exists (no IndexError).
ReconstructInRange(image_patches, ps) ==
  \A i \in 0..(ps[1] - 1) : \A j \in 0..(ps[2] - 1) :
     ReconstructIndex(i, j) + 1 <= Len(image_patches)

reconstruct_image(image_patches, ps) ==
  LET row(i) == [j \in 1..ps[2] |-> image_patches[ReconstructIndex(i, j - 1) + 1]]
      restored_image == [i \in 1..ps[1] |-> ConcatAxis1(row(i - 1))]
  IN ConcatAxis0(restored_image)

(***************************************************************************)
(* SpecTile: one call of extract_patches, then one of reconstruct_image    *)
(* on what it returned.                                                    *)
(***************************************************************************)
Resolutions == {<<h, w>> : h \in PATCH_ROWS..MaxH, w \in PATCH_COLS..MaxW}
GridShapes == {<<r, c>> : r \in 1..MaxGridRows, c \in 1..MaxGridCols}

TileInit ==
  /\ tpc = "start"
  /\ res \in Resolutions
  /\ image \in ImagesOfShape(res[1], res[2])
  /\ patches = <<>>
  /\ patch_size = None
  /\ restored = None

ExtractPatches ==
  /\ tpc = "start"
  /\ LET out == extract_patches(res, image)
     IN /\ tpc' = IF out.ok THEN "extracted" ELSE "shape_error"
        /\ patches' = out.patches
  /\ UNCHANGED <<res, image, patch_size, restored, notTile>>

ReconstructImage ==
  /\ tpc = "extracted"
  /\ \E ps \in GridShapes :
       /\ patch_size' = ps
       /\ IF ReconstructInRange(patches, ps)
          THEN /\ restored' = reconstruct_image(patches, ps)
               /\ tpc' = "reconstructed"
          ELSE /\ restored' = None
               /\ tpc' = "index_error"
  /\ UNCHANGED <<res, image, patches, notTile>>

TileNext == ExtractPatches \/ ReconstructImage

TileIdle ==
  /\ tpc = "idle"
  /\ res = <<0, 0>>
  /\ image = <<>>
  /\ patches = <<>>
  /\ patch_size = None
  /\ restored = None

(***************************************************************************)
(* tf.data as load_dataset_from_gcs uses it.  A dataset is modelled by the *)
(* sequence of elements one iteration of it yields.                        *)
(***************************************************************************)
RECURSIVE RandomValue(_, _)
\* The value stream of a seeded random generator: draw number k (from 0)
\* of the stream seeded sd, a function of (sd, k) alone.  A small linear
\* congruential generator stands for the library's generator.
RandomValue(sd, k) ==
  LET prev == IF k = 0 THEN sd ELSE RandomValue(sd, k - 1)
  IN (75 * prev + 74) % 65537

Seeds == 0..MaxSeed

\* An Optional[int] argument: <<>> for None, <<n>> for the integer n.
NoSeed == <<>>
SeedArgs == {NoSeed} \cup {<<sd>> : sd \in Seeds}

GetSeedFromEntropy(sd, entropy) == entropy

\* random_seed.get_seed: the seed an op runs with.  Without a seed
\* argument the runtime draws one (entropy) when the op is created.
GetSeed(sd, entropy) == IF sd = NoSeed THEN entropy ELSE sd[1]

\* The seed of the given iteration (1, 2, ...) of a shuffle dataset.
IterationSeed(sd, reshuffle_each_iteration, iteration) ==
  IF reshuffle_each_iteration THEN RandomValue(sd, iteration) ELSE sd

RECURSIVE ShuffleLoop(_, _, _, _, _, _)
\* The shuffle iterator: fill the buffer up to buffer_size from the input,
\* emit the buffered element at a random offset, move the front element
\* into its slot, advance the front.
ShuffleLoop(input, next_in, buffer, buffer_size, sd, k) ==
  IF Len(buffer) < buffer_size /\ next_in <= Len(input)
  THEN ShuffleLoop(input, next_in + 1, Append(buffer, input[next_in]),
                   buffer_size, sd, k)
  ELSE IF Len(buffer) = 0 THEN <<>>
  ELSE LET offset == RandomValue(sd, k) % Len(buffer)
           out    == buffer[offset + 1]
           moved  == [buffer EXCEPT ![offset + 1] = buffer[1]]
       IN <<out>> \o ShuffleLoop(input, next_in, Tail(moved), buffer_size,
                                sd, k + 1)

\* dataset.shuffle(buffer_size, seed, reshuffle_each_iteration), as the
\* given iteration of it yields.
Shuffle(input, buffer_size, sd, reshuffle_each_iteration, iteration) ==
  ShuffleLoop(input, 1, <<>>, buffer_size,
              IterationSeed(sd, reshuffle_each_iteration, iteration), 0)

Min(a, b) == IF a <= b THEN a ELSE b

\* dataset.skip(count), dataset.take(count)
Skip(input, count) == SubSeq(input, count + 1, Len(input))
Take(input, count) == SubSeq(input, 1, Min(count, Len(input)))

\* The records of a blob, in file order.
RecordCount(blobs, name) == blobs[name]

\* A slot of the interleave cycle with no open file.
EmptySlot == [file |-> 0, pos |-> 0]

RECURSIVE InterleaveLoop(_, _, _, _, _)
\* TFRecordDataset(filenames, num_parallel_reads): a deterministic
\* interleave of the files with block length 1.  slots are the open files
\* of the cycle (EmptySlot: none), ci the cycle index, nf the next file name.
InterleaveLoop(blobs, filenames, slots, ci, nf) ==
  LET end_of_input == nf > Len(filenames)
      num_open     == Cardinality({s \in 1..Len(slots) : slots[s] # EmptySlot})
      advance      == (ci % Len(slots)) + 1
  IN IF end_of_input /\ num_open = 0 THEN <<>>
     ELSE IF slots[ci] # EmptySlot
     THEN LET cur == slots[ci]
          IN IF cur.pos <= RecordCount(blobs, cur.file)
             THEN <<<<cur.file, cur.pos>>>> \o
                  InterleaveLoop(blobs, filenames,
                                 [slots EXCEPT ![ci] = [file |-> cur.file, pos |-> cur.pos + 1]],
                                 advance, nf)
             ELSE InterleaveLoop(blobs, filenames, [slots EXCEPT ![ci] = EmptySlot],
                                 advance, nf)
     ELSE IF ~end_of_input
     THEN InterleaveLoop(blobs, filenames,
                         [slots EXCEPT ![ci] = [file |-> filenames[nf], pos |-> 1]],
                         ci, nf + 1)
     ELSE InterleaveLoop(blobs, filenames, slots, advance, nf)

TFRecordDataset(blobs, filenames, num_parallel_reads) ==
  InterleaveLoop(blobs, filenames, [s \in 1..num_parallel_reads |-> EmptySlot], 1, 1)

\* _parse_image_fn: the decoded, resized pair of a record.
ParseImage(proto) == [blur |-> <<"blur", proto>>, sharp |-> <<"sharp", proto>>]

\* dataset.map(fn, num_parallel_calls): order-preserving.
MapParse(input) == [k \in 1..Len(input) |-> ParseImage(input[k])]

(***************************************************************************)
(* load_dataset_from_gcs, lines 24-70: listing, reading, the split.        *)
(***************************************************************************)
Runs == 1..2

\* Blob names are numbered in their lexicographic order.  The shards are
\* written full, the last one with what is left.
Buckets ==
  {[k \in 1..n |-> IF k < n THEN full ELSE Min(last, full)] :
      n \in 1..MaxBlobs, full \in 1..MaxRecords, last \in 1..MaxRecords}

BlobNames(blobs) == DOMAIN blobs

\* Every order in which a listing can return the blobs.
Listings(blobs) ==
  {f \in [1..Cardinality(BlobNames(blobs)) -> BlobNames(blobs)] :
      \A a, b \in DOMAIN f : a # b => f[a] # f[b]}

\* bucket.list_blobs(prefix) as the comprehension consumes it: the names
\* in the order the store returned them.
ListBlobNames(listing) == [k \in 1..Len(listing) |-> listing[k]]

SplitShuffleReshuffled == TRUE

\* reshuffle_each_iteration of the split shuffle.
SplitShuffleReshuffle == FALSE

\* The order of the split shuffle in the given iteration of it.
SplitShuffle(input, sd, iteration) ==
  Shuffle(input, 50, sd, SplitShuffleReshuffle, iteration)

LoadInit ==
  /\ bucket \in Buckets
  /\ cycle_length \in 1..MaxCycle
  /\ val_size \in 0..MaxValSize
  /\ lpc = [r \in Runs |-> "start"]
  /\ seed = [r \in Runs |-> NoSeed]
  /\ tf_trainval = [r \in Runs |-> <<>>]
  /\ shuffle_seed = [r \in Runs |-> NoSeed]
  /\ trainval_data = [r \in Runs |-> <<>>]
  /\ train_data = [r \in Runs |-> <<>>]
  /\ val_data = [r \in Runs |-> <<>>]

\* Lines 8-32: the call, with its seed argument, lists the blobs.  The
\* calls share no state; the second is made after the first has returned.
ListBlobs(r) ==
  /\ lpc[r] = "start"
  /\ \A q \in Runs : q < r => lpc[q] = "split"
  /\ \E sd \in SeedArgs, listing \in Listings(bucket) :
       /\ seed' = [seed EXCEPT ![r] = sd]
       /\ tf_trainval' = [tf_trainval EXCEPT ![r] = ListBlobNames(listing)]
  /\ lpc' = [lpc EXCEPT ![r] = "listed"]
  /\ UNCHANGED <<bucket, cycle_length, val_size, shuffle_seed, trainval_data,
                 train_data, val_data, notLoad>>

\* Lines 27-58: read the listed files and parse the records.
ReadRecords(r) ==
  /\ lpc[r] = "listed"
  /\ trainval_data' = [trainval_data EXCEPT ![r] =
        MapParse(TFRecordDataset(bucket, tf_trainval[r], cycle_length))]
  /\ lpc' = [lpc EXCEPT ![r] = "read"]
  /\ UNCHANGED <<bucket, cycle_length, val_size, seed, tf_trainval,
                 shuffle_seed, train_data, val_data, notLoad>>

\* Lines 63-70: shuffle once, skip and take, cache.  train_data and
\* val_data each iterate the shuffled dataset; the cache keeps what the
\* first iteration of each yields.
SplitTrainVal(r) ==
  /\ lpc[r] = "read"
  /\ \E entropy \in Seeds :
       LET sd == GetSeed(seed[r], entropy)
       IN /\ shuffle_seed' = [shuffle_seed EXCEPT ![r] = <<sd>>]
          /\ train_data' = [train_data EXCEPT ![r] =
                              Skip(SplitShuffle(trainval_data[r], sd, 1), val_size)]
          /\ val_data' = [val_data EXCEPT ![r] =
                              Take(SplitShuffle(trainval_data[r], sd, 2), val_size)]
  /\ lpc' = [lpc EXCEPT ![r] = "split"]
  /\ UNCHANGED <<bucket, cycle_length, val_size, seed, tf_trainval,
                 trainval_data, notLoad>>

LoadNext ==
  \/ \E r \in Runs : ListBlobs(r)
  \/ \E r \in Runs : ReadRecords(r)
  \/ \E r \in Runs : SplitTrainVal(r)

LoadIdle ==
  /\ bucket = <<>>
  /\ cycle_length = 0
  /\ val_size = 0
  /\ lpc = <<>>
  /\ seed = <<>>
  /\ tf_trainval = <<>>
  /\ shuffle_seed = <<>>
  /\ trainval_data = <<>>
  /\ train_data = <<>>
  /\ val_data = <<>>

(***************************************************************************)
(* load_dataset_from_gcs, lines 72-88: the paired random flips.            *)
(***************************************************************************)
\* tf.image.flip_left_right, tf.image.flip_up_down
FlipLeftRight(img) ==
  [r \in 1..Height(img) |-> [c \in 1..Width(img) |-> img[r][Width(img) - c + 1]]]

FlipUpDown(img) ==
  [r \in 1..Height(img) |-> img[Height(img) - r + 1]]

\* tf.random.uniform([], seed=seed): the values run number k of the op can
\* return, in units of 1 / UniformRes.  Seeded, it is the k-th value of
\* the op's stream; unseeded, any value of [0, 1).
RandomUniform(sd, k) ==
  IF sd = NoSeed THEN 0..(UniformRes - 1)
  ELSE {RandomValue(sd[1], k) % UniformRes}

\* uniform > 0.5
OverHalf(u) == 2 * u > UniformRes

RandomHorizontalFlipSharpUpDown(image_blur, image_sharp, u) ==
  LET flip == OverHalf(u)
  IN [blur  |-> IF flip THEN FlipLeftRight(image_blur) ELSE image_blur,
      sharp |-> IF flip THEN FlipUpDown(image_sharp) ELSE image_sharp]

\* _random_horizontal_flip(image_blur, image_sharp), u the uniform drawn
RandomHorizontalFlip(image_blur, image_sharp, u) ==
  LET flip == OverHalf(u)
  IN [blur  |-> IF flip THEN FlipLeftRight(image_blur) ELSE image_blur,
      sharp |-> IF flip THEN FlipLeftRight(image_sharp) ELSE image_sharp]

\* _random_vertical_flip(image_blur, image_sharp), u the uniform drawn
RandomVerticalFlip(image_blur, image_sharp, u) ==
  LET flip == OverHalf(u)
  IN [blur  |-> IF flip THEN FlipUpDown(image_blur) ELSE image_blur,
      sharp |-> IF flip THEN FlipUpDown(image_sharp) ELSE image_sharp]

\* Training pairs: a blurred and a sharp image of one shape.
AugPairs ==
  UNION {{[blur |-> b, sharp |-> s] : b \in ImagesOfShape(h, w), s \in ImagesOfShape(h, w)} :
            h \in 1..MaxAugSide, w \in 1..MaxAugSide}

AugInit ==
  /\ apc = "in"
  /\ aug_seed \in SeedArgs
  /\ aug_in \in AugPairs
  /\ aug_h = aug_in
  /\ aug_v = aug_in
  /\ do_flip = [h |-> FALSE, v |-> FALSE]
  /\ h_calls = 0
  /\ v_calls = 0
  /\ outcomes = {}

\* Line 87: train_data.map(_random_horizontal_flip) on the next pair.
HorizontalFlipMap ==
  /\ apc = "in"
  /\ \E u \in RandomUniform(aug_seed, h_calls) :
       /\ aug_h' = RandomHorizontalFlip(aug_in.blur, aug_in.sharp, u)
       /\ do_flip' = [do_flip EXCEPT !.h = OverHalf(u)]
  /\ h_calls' = h_calls + 1
  /\ apc' = "hflipped"
  /\ UNCHANGED <<aug_seed, aug_in, aug_v, v_calls, outcomes, notAug>>

\* Line 88: train_data.map(_random_vertical_flip) on what line 87 yields.
VerticalFlipMap ==
  /\ apc = "hflipped"
  /\ \E u \in RandomUniform(aug_seed, v_calls) :
       /\ aug_v' = RandomVerticalFlip(aug_h.blur, aug_h.sharp, u)
       /\ do_flip' = [do_flip EXCEPT !.v = OverHalf(u)]
       /\ outcomes' = outcomes \cup {[h |-> do_flip.h, v |-> OverHalf(u)]}
  /\ v_calls' = v_calls + 1
  /\ apc' = "vflipped"
  /\ UNCHANGED <<aug_seed, aug_in, aug_h, h_calls, notAug>>

\* The next pair of the pass enters the maps.
NextPair ==
  /\ apc = "vflipped"
  /\ h_calls < MaxAugCalls
  /\ aug_in' \in AugPairs
  /\ apc' = "in"
  /\ UNCHANGED <<aug_seed, aug_h, aug_v, do_flip, h_calls, v_calls, outcomes,
                 notAug>>

AugNext == HorizontalFlipMap \/ VerticalFlipMap \/ NextPair

AugIdle ==
  /\ apc = "idle"
  /\ aug_seed = NoSeed
  /\ aug_in = <<>>
  /\ aug_h = <<>>
  /\ aug_v = <<>>
  /\ do_flip = <<>>
  /\ h_calls = 0
  /\ v_calls = 0
  /\ outcomes = {}

(***************************************************************************)
(* load_dataset_from_gcs, lines 90-106, and the fit loop of main on the    *)
(* streams (cnn_deblur_reds.py, lines 121-131).                            *)
(***************************************************************************)
\* Shuffle buffer size
BUF == 50

Streams == {"train", "val"}

\* The datasets of lines 65-96 as the stages they are built from.
TrainStages == <<"skip", "cache", "map", "map", "shuffle", "batch", "repeat">>
ValStages == <<"take", "cache", "shuffle", "batch", "repeat">>

\* dataset.prefetch(buffer_size): a new dataset; the receiver is unchanged.
Prefetch(ds) == Append(ds, "prefetch")

\* Lines 103-104: the statement `ds.prefetch(AUTOTUNE)` builds
\* Prefetch(ds) and binds it to no name; ds is the dataset it was.
PrefetchStatement(ds) == ds

HasPrefetch(ds) == \E k \in 1..Len(ds) : ds[k] = "prefetch"

\* How many batches the iterator of ds assembles ahead of its consumer
\* (with AUTOTUNE the runtime picks the depth, at least 1).
PrefetchDepth(ds) == IF HasPrefetch(ds) THEN MaxPrefetch ELSE 0

\* Lines 91-92: the order of the given pass over a cached subset.
EpochShuffle(subset, sd, pass_no) == Shuffle(subset, BUF, sd, TRUE, pass_no)

NewIterator == [pass_no |-> 0, rep |-> 0, pos |-> 0, buffer |-> <<>>]

\* Whether the iterator of shuffle.batch(batch_size).repeat(epochs) has a
\* next batch: the current pass has elements left, or a pass is left.
HasNextBatch(it, subset, cfg) ==
  (it.rep >= 1 /\ it.pos < Len(subset)) \/ it.rep < cfg.epochs

\* The next batch of the iterator: up to batch_size elements of the
\* current pass, the remainder of the pass when fewer are left
\* (batch(batch_size) keeps the remainder); a new pass, reshuffled, once
\* the current one is used up.
NextBatch(it, subset, cfg) ==
  LET same  == it.rep >= 1 /\ it.pos < Len(subset)
      pass  == IF same THEN it.pass_no ELSE it.pass_no + 1
      from  == IF same THEN it.pos ELSE 0
      upto  == Min(from + cfg.batch_size, Len(subset))
      order == EpochShuffle(subset, cfg.seed, pass)
  IN [batch |-> SubSeq(order, from + 1, upto),
      it    |-> [it EXCEPT !.pass_no = pass,
                           !.rep = IF same THEN it.rep ELSE it.rep + 1,
                           !.pos = upto]]

\* steps_train = train_size // BATCH_SIZE, steps_val = val_size // BATCH_SIZE
Steps(s) == Len(subsets[s]) \div stream_cfg.batch_size

StreamConfigs ==
  [batch_size : 1..MaxBatch, epochs : 1..MaxEpochs, seed : Seeds,
   fresh_val_iter : BOOLEAN]

StreamInit ==
  /\ stream_cfg \in StreamConfigs
  /\ \E nt \in stream_cfg.batch_size..MaxSubset, nv \in stream_cfg.batch_size..MaxSubset :
       subsets = [train |-> [k \in 1..nt |-> k], val |-> [k \in 1..nv |-> nt + k]]
  /\ returned = [s \in Streams |-> <<>>]
  /\ iters = [s \in Streams |-> NewIterator]
  /\ fit = [phase |-> "start", epoch |-> 0, step |-> 0, batch |-> <<>>]

\* Lines 90-106: reshuffle, batch, repeat, the prefetch statements, return.
BatchRepeatPrefetch ==
  /\ fit.phase = "start"
  /\ returned' = [train |-> PrefetchStatement(TrainStages),
                  val   |-> PrefetchStatement(ValStages)]
  /\ fit' = [fit EXCEPT !.phase = "returned"]
  /\ UNCHANGED <<stream_cfg, subsets, iters, notStream>>

\* conv_net.fit(train_data, steps_per_epoch=steps_train, ...): the loop
\* opens one iterator on train_data and asks it for the first batch.
FitStart ==
  /\ fit.phase = "returned"
  /\ fit' = [fit EXCEPT !.phase = "train_wait"]
  /\ UNCHANGED <<stream_cfg, subsets, returned, iters, notStream>>

WaitingOn(s) == fit.phase = IF s = "train" THEN "train_wait" ELSE "val_wait"
Processing(s) == fit.phase = IF s = "train" THEN "train_step" ELSE "val_step"

\* The iterator assembles its next batch: when the consumer waits for it
\* and none is ready, or ahead of the consumer while fewer than the
\* prefetch depth are ready.
Assemble(s) ==
  /\ fit.phase \in {"train_wait", "train_step", "val_wait", "val_step"}
  /\ HasNextBatch(iters[s], subsets[s], stream_cfg)
  /\ \/ WaitingOn(s) /\ iters[s].buffer = <<>>
     \/ Len(iters[s].buffer) < PrefetchDepth(returned[s])
  /\ LET nb == NextBatch(iters[s], subsets[s], stream_cfg)
     IN iters' = [iters EXCEPT ![s] = [nb.it EXCEPT !.buffer = Append(@, nb.batch)]]
  /\ UNCHANGED <<stream_cfg, subsets, returned, fit, notStream>>

\* The loop receives the batch it waits for and runs its step on it.
Deliver(s) ==
  /\ WaitingOn(s)
  /\ iters[s].buffer # <<>>
  /\ fit' = [fit EXCEPT !.phase = IF s = "train" THEN "train_step" ELSE "val_step",
                        !.batch = Head(iters[s].buffer)]
  /\ iters' = [iters EXCEPT ![s].buffer = Tail(@)]
  /\ UNCHANGED <<stream_cfg, subsets, returned, notStream>>

\* A training step ends: the next step of the epoch, or after steps_train
\* steps the validation of the epoch.  The train iterator is kept from
\* epoch to epoch; the validation iterator is kept or opened anew,
\* depending on the library version.
FinishTrainStep ==
  /\ fit.phase = "train_step"
  /\ IF fit.step + 1 < Steps("train")
     THEN /\ fit' = [fit EXCEPT !.phase = "train_wait", !.step = @ + 1, !.batch = <<>>]
          /\ iters' = iters
     ELSE /\ fit' = [fit EXCEPT !.phase = "val_wait", !.step = 0, !.batch = <<>>]
          /\ iters' = IF stream_cfg.fresh_val_iter
                      THEN [iters EXCEPT !["val"].rep = 0, !["val"].pos = 0,
                                         !["val"].buffer = <<>>]
                      ELSE iters
  /\ UNCHANGED <<stream_cfg, subsets, returned, notStream>>

\* A validation step ends: the next one, or after steps_val steps the next
\* epoch, or the end of fit after the last epoch.
FinishValStep ==
  /\ fit.phase = "val_step"
  /\ fit' = IF fit.step + 1 < Steps("val")
            THEN [fit EXCEPT !.phase = "val_wait", !.step = @ + 1, !.batch = <<>>]
            ELSE IF fit.epoch + 1 < stream_cfg.epochs
            THEN [fit EXCEPT !.phase = "train_wait", !.epoch = @ + 1, !.step = 0,
                             !.batch = <<>>]
            ELSE [fit EXCEPT !.phase = "done", !.epoch = @ + 1, !.step = 0,
                             !.batch = <<>>]
  /\ UNCHANGED <<stream_cfg, subsets, returned, iters, notStream>>

StreamNext ==
  \/ BatchRepeatPrefetch
  \/ FitStart
  \/ \E s \in Streams : Assemble(s)
  \/ \E s \in Streams : Deliver(s)
  \/ FinishTrainStep
  \/ FinishValStep

StreamIdle ==
  /\ stream_cfg = <<>>
  /\ subsets = <<>>
  /\ returned = <<>>
  /\ iters = <<>>
  /\ fit = <<>>

(***************************************************************************)
(* utils/preproc_cifar.py: preproc_cifar and its two preproc_subset tasks. *)
(***************************************************************************)
\* rnd = np.random.RandomState(42)
RND_SEED == 42

Tasks == {"train", "test"}

\* rnd.uniform(0, 3): the value the shared RandomState gives as its draw
\* number pos (in units of 3 / 65537).  The call is atomic.
RndUniform(pos) == RandomValue(RND_SEED, pos)

\* gauss_blur(img): the image blurred with the standard deviation drawn.
GaussBlur(img, std_dev) == [src |-> img, sigmaX |-> std_dev]

CifarInit ==
  /\ cifar \in [Tasks -> 1..MaxCifar]
  /\ cpc = [r \in Runs |-> "start"]
  /\ rnd = [r \in Runs |-> 0]
  /\ loop_i = [r \in Runs |-> [t \in Tasks |-> 0]]
  /\ predictor = [r \in Runs |-> [t \in Tasks |-> <<>>]]
  /\ cifar_out = [r \in Runs |-> <<>>]

\* Lines 50-60: the random state is made and both tasks are submitted to
\* the pool of two workers.
Submit(r) ==
  /\ cpc[r] = "start"
  /\ cpc' = [cpc EXCEPT ![r] = "submitted"]
  /\ UNCHANGED <<cifar, rnd, loop_i, predictor, cifar_out, notCifar>>

\* Lines 32-33, one iteration of the loop of a task: draw the standard
\* deviation from the shared random state, blur image i, store it.
BlurNext(r, t) ==
  /\ cpc[r] = "submitted"
  /\ loop_i[r][t] < cifar[t]
  /\ LET std_dev == RndUniform(rnd[r])
         img     == <<t, loop_i[r][t]>>
     IN predictor' = [predictor EXCEPT ![r][t] = Append(@, GaussBlur(img, std_dev))]
  /\ rnd' = [rnd EXCEPT ![r] = @ + 1]
  /\ loop_i' = [loop_i EXCEPT ![r][t] = @ + 1]
  /\ UNCHANGED <<cifar, cpc, cifar_out, notCifar>>

\* Lines 62-77: both futures have completed; their results are returned.
Collect(r) ==
  /\ cpc[r] = "submitted"
  /\ \A t \in Tasks : loop_i[r][t] = cifar[t]
  /\ cifar_out' = [cifar_out EXCEPT ![r] =
                     [trainX |-> predictor[r]["train"], testX |-> predictor[r]["test"]]]
  /\ cpc' = [cpc EXCEPT ![r] = "done"]
  /\ UNCHANGED <<cifar, rnd, loop_i, predictor, notCifar>>

CifarNext ==
  \/ \E r \in Runs : Submit(r)
  \/ \E r \in Runs, t \in Tasks : BlurNext(r, t)
  \/ \E r \in Runs : Collect(r)

CifarIdle ==
  /\ cifar = <<>>
  /\ cpc = <<>>
  /\ rnd = <<>>
  /\ loop_i = <<>>
  /\ predictor = <<>>
  /\ cifar_out = <<>>

(***************************************************************************)
(* extract_patches_from_dataset(res, dataset), lines 109-125, on the       *)
(* parsed trainval_data of lines 27-56.                                    *)
(***************************************************************************)
\* The tensor _parse_image_fn yields for one side of a record, of shape
\* res.  A pixel carries the side, the record and its row-major rank, so
\* that what a patch shows names where it was taken from.
DecodedImage(tagged, rs) ==
  [r \in 1..rs[1] |-> [c \in 1..rs[2] |->
      <<tagged[1], tagged[2], (r - 1) * rs[2] + c>>]]

TrainvalPassSloppy(blobs, filenames, num_parallel_reads, rs, pass_no) ==
  LET reads  == IF pass_no = 1 THEN num_parallel_reads ELSE 1
      parsed == MapParse(TFRecordDataset(blobs, filenames, reads))
  IN [k \in 1..Len(parsed) |->
        [blur  |-> DecodedImage(parsed[k].blur, rs),
         sharp |-> DecodedImage(parsed[k].sharp, rs)]]

\* What iteration pass_no of the parsed trainval_data yields.  Every
\* iteration reads the files again; the interleave and the map are
\* deterministic, so no iteration differs from another.
TrainvalPass(blobs, filenames, num_parallel_reads, rs, pass_no) ==
  LET parsed == MapParse(TFRecordDataset(blobs, filenames, num_parallel_reads))
  IN [k \in 1..Len(parsed) |->
        [blur  |-> DecodedImage(parsed[k].blur, rs),
         sharp |-> DecodedImage(parsed[k].sharp, rs)]]

RECURSIVE FlatMapSlices(_)
\* dataset.flat_map(tf.data.Dataset.from_tensor_slices): the slices along
\* axis 0 of each element, element after element.
FlatMapSlices(input) ==
  IF Len(input) = 0 THEN <<>>
  ELSE Head(input) \o FlatMapSlices(Tail(input))

\* tf.data.Dataset.zip((a, b)): ends with the shorter input.
Zip(a, b) == [k \in 1..Min(Len(a), Len(b)) |-> <<a[k], b[k]>>]

PatchInit ==
  /\ ppc = "start"
  /\ p_bucket \in Buckets
  /\ p_files \in Listings(p_bucket)
  /\ p_cycle \in 1..MaxCycle
  /\ p_res \in Resolutions
  /\ datasetX = <<>>
  /\ datasetY = <<>>
  /\ zipped = <<>>

\* Lines 111-112: datasetX and datasetY are two maps over dataset, each
\* iterating it on its own.
Unzip ==
  /\ ppc = "start"
  /\ LET first  == TrainvalPass(p_bucket, p_files, p_cycle, p_res, 1)
         second == TrainvalPass(p_bucket, p_files, p_cycle, p_res, 2)
     IN /\ datasetX' = [k \in 1..Len(first) |-> first[k].blur]
        /\ datasetY' = [k \in 1..Len(second) |-> second[k].sharp]
  /\ ppc' = "unzipped"
  /\ UNCHANGED <<p_bucket, p_files, p_cycle, p_res, zipped, notPatch>>

\* Lines 115-117: both sides are mapped with extract_patches(res, .).
MapExtractPatches ==
  /\ ppc = "unzipped"
  /\ LET outX == [k \in 1..Len(datasetX) |-> extract_patches(p_res, datasetX[k])]
         outY == [k \in 1..Len(datasetY) |-> extract_patches(p_res, datasetY[k])]
     IN IF /\ \A k \in 1..Len(outX) : outX[k].ok
           /\ \A k \in 1..Len(outY) : outY[k].ok
        THEN /\ datasetX' = [k \in 1..Len(outX) |-> outX[k].patches]
             /\ datasetY' = [k \in 1..Len(outY) |-> outY[k].patches]
             /\ ppc' = "tiled"
        ELSE /\ datasetX' = <<>>
             /\ datasetY' = <<>>
             /\ ppc' = "shape_error"
  /\ UNCHANGED <<p_bucket, p_files, p_cycle, p_res, zipped, notPatch>>

\* Lines 121-122: each element of 12 patches becomes 12 elements.
UnBatch ==
  /\ ppc = "tiled"
  /\ datasetX' = FlatMapSlices(datasetX)
  /\ datasetY' = FlatMapSlices(datasetY)
  /\ ppc' = "flat"
  /\ UNCHANGED <<p_bucket, p_files, p_cycle, p_res, zipped, notPatch>>

\* Line 125: zip again.
ZipAgain ==
  /\ ppc = "flat"
  /\ zipped' = Zip(datasetX, datasetY)
  /\ ppc' = "zipped"
  /\ UNCHANGED <<p_bucket, p_files, p_cycle, p_res, datasetX, datasetY, notPatch>>

PatchNext == Unzip \/ MapExtractPatches \/ UnBatch \/ ZipAgain

PatchIdle ==
  /\ ppc = "idle"
  /\ p_bucket = <<>>
  /\ p_files = <<>>
  /\ p_cycle = 0
  /\ p_res = <<>>
  /\ datasetX = <<>>
  /\ datasetY = <<>>
  /\ zipped = <<>>

(***************************************************************************)
(* load_dataset_from_gcs, lines 63-70 and 90-96: the cached split and the  *)
(* passes of the repeated train and validation streams over it.            *)
(***************************************************************************)
\* The corpus of n elements, in the order trainval_data yields them.
Corpus(n) == [k \in 1..n |-> k]

SubsetPassReshuffled(input, sd, count, s, pass_no) ==
  LET shuffled == Shuffle(input, 50, sd, TRUE, pass_no)
  IN IF s = "train" THEN Skip(shuffled, count) ELSE Take(shuffled, count)

\* Lines 64-70: what the cached subset s yields in pass pass_no of the
\* stream built on it.  cache() replays what the first iteration of the
\* subset read: train_data from iteration 1 of the split shuffle,
\* val_data from iteration 2.
SubsetPass(input, sd, count, s, pass_no) ==
  IF s = "train" THEN Skip(SplitShuffle(input, sd, 1), count)
  ELSE Take(SplitShuffle(input, sd, 2), count)

EpochInit ==
  /\ epc = "start"
  /\ e_corpus \in {Corpus(n) : n \in 1..MaxCorpus}
  /\ e_seed \in SeedArgs
  /\ e_val_size \in 0..MaxValSize
  /\ e_epochs \in 1..MaxEpochs
  /\ op_seed = <<>>
  /\ passes = [s \in Streams |-> 0]
  /\ first_pass = [s \in Streams |-> <<>>]
  /\ last_pass = [s \in Streams |-> <<>>]

\* Lines 63-96: the datasets are built.  Each of the three shuffle ops
\* gets its seed: the seed argument, or one drawn by the runtime.
BuildStreams ==
  /\ epc = "start"
  /\ \E e1, e2, e3 \in Seeds :
       op_seed' = [split |-> GetSeed(e_seed, e1),
                   train |-> GetSeed(e_seed, e2),
                   val   |-> GetSeed(e_seed, e3)]
  /\ epc' = "built"
  /\ UNCHANGED <<e_corpus, e_seed, e_val_size, e_epochs, passes, first_pass,
                 last_pass, notEpoch>>

\* One pass of stream s, of the e_epochs passes repeat(epochs) makes: the
\* elements of the cached subset through the reshuffling shuffle.
StreamPass(s) ==
  /\ epc = "built"
  /\ passes[s] < e_epochs
  /\ LET pass_no == passes[s] + 1
         subset  == SubsetPass(e_corpus, op_seed.split, e_val_size, s, pass_no)
         out     == EpochShuffle(subset, op_seed[s], pass_no)
     IN /\ last_pass' = [last_pass EXCEPT ![s] = out]
        /\ first_pass' = IF pass_no = 1 THEN [first_pass EXCEPT ![s] = out]
                         ELSE first_pass
        /\ passes' = [passes EXCEPT ![s] = pass_no]
  /\ UNCHANGED <<epc, e_corpus, e_seed, e_val_size, e_epochs, op_seed, notEpoch>>

EpochNext ==
  \/ BuildStreams
  \/ \E s \in Streams : StreamPass(s)

EpochIdle ==
  /\ epc = "idle"
  /\ e_corpus = <<>>
  /\ e_seed = NoSeed
  /\ e_val_size = 0
  /\ e_epochs = 0
  /\ op_seed = <<>>
  /\ passes = <<>>
  /\ first_pass = <<>>
  /\ last_pass = <<>>

(***************************************************************************)
(* load_dataset_from_gcs, lines 63-66, on a corpus larger than the buffer  *)
(* of the split shuffle.  The shuffle iterator runs step by step: first    *)
(* the iteration that fills train_data, then the one that fills val_data.  *)
(***************************************************************************)
\* Corpus sizes around the buffer size: from MaxBigCorpus - MaxValSize.
BigCorpusSizes == (MaxBigCorpus - MaxValSize)..MaxBigCorpus

BigSeeds == 0..MaxBigSeed
BigSeedArgs == {NoSeed} \cup {<<sd>> : sd \in BigSeeds}

\* A shuffle iterator: the buffer, the next input position, the state of
\* its random generator, and what it has emitted.
NewShuffleIterator(sd) == [buffer |-> <<>>, next_in |-> 1, rng |-> sd, out |-> <<>>]

ShuffleBufferNeverFull(buffer, buffer_size) == FALSE

\* The iterator reads its input until the buffer holds buffer_size elements.
ShuffleBufferFull(buffer, buffer_size) == Len(buffer) >= buffer_size

\* The iterator emits the buffered element at a random offset and moves
\* the front element into its slot.
ShuffleEmit(it) ==
  LET r      == RandomValue(it.rng, 0)
      offset == r % Len(it.buffer)
      moved  == [it.buffer EXCEPT ![offset + 1] = it.buffer[1]]
  IN [it EXCEPT !.buffer = Tail(moved), !.rng = r,
                !.out = Append(it.out, it.buffer[offset + 1])]

BufferInit ==
  /\ bpc = "start"
  /\ b_corpus \in {Corpus(n) : n \in BigCorpusSizes}
  /\ b_seed \in BigSeedArgs
  /\ b_val_size \in 0..MaxValSize
  /\ b_op_seed = NoSeed
  /\ b_it = NewShuffleIterator(0)
  /\ b_train = <<>>
  /\ b_val = <<>>

\* Line 64: the shuffle op is created with its seed, and the iteration
\* that fills the cache of train_data starts.
StartTrainIteration ==
  /\ bpc = "start"
  /\ \E entropy \in BigSeeds :
       LET sd == GetSeed(b_seed, entropy)
       IN /\ b_op_seed' = <<sd>>
          /\ b_it' = NewShuffleIterator(IterationSeed(sd, SplitShuffleReshuffle, 1))
  /\ bpc' = "train"
  /\ UNCHANGED <<b_corpus, b_seed, b_val_size, b_train, b_val, notBuffer>>

\* The shuffle iterator, asked for an element, reads the next input
\* element into its buffer.
FillBuffer ==
  /\ bpc \in {"train", "val"}
  /\ bpc = "val" => Len(b_it.out) < b_val_size
  /\ ~ShuffleBufferFull(b_it.buffer, 50)
  /\ b_it.next_in <= Len(b_corpus)
  /\ b_it' = [b_it EXCEPT !.buffer = Append(@, b_corpus[b_it.next_in]),
                          !.next_in = @ + 1]
  /\ UNCHANGED <<bpc, b_corpus, b_seed, b_val_size, b_op_seed, b_train, b_val,
                 notBuffer>>

\* The shuffle iterator emits an element; take(val_size) asks for no more
\* than val_size of them.
EmitElement ==
  /\ bpc \in {"train", "val"}
  /\ ShuffleBufferFull(b_it.buffer, 50) \/ b_it.next_in > Len(b_corpus)
  /\ Len(b_it.buffer) > 0
  /\ bpc = "val" => Len(b_it.out) < b_val_size
  /\ b_it' = ShuffleEmit(b_it)
  /\ UNCHANGED <<bpc, b_corpus, b_seed, b_val_size, b_op_seed, b_train, b_val,
                 notBuffer>>

\* Line 65: the first iteration has ended; train_data is what it emitted
\* after the first val_size elements.  The iteration for val_data starts.
EndTrainIteration ==
  /\ bpc = "train"
  /\ b_it.next_in > Len(b_corpus)
  /\ Len(b_it.buffer) = 0
  /\ b_train' = Skip(b_it.out, b_val_size)
  /\ b_it' = NewShuffleIterator(IterationSeed(b_op_seed[1], SplitShuffleReshuffle, 2))
  /\ bpc' = "val"
  /\ UNCHANGED <<b_corpus, b_seed, b_val_size, b_op_seed, b_val, notBuffer>>

\* Line 66: val_data is the first val_size elements of the second
\* iteration, or all of them if there are fewer.
EndValIteration ==
  /\ bpc = "val"
  /\ \/ Len(b_it.out) = b_val_size
     \/ b_it.next_in > Len(b_corpus) /\ Len(b_it.buffer) = 0
  /\ b_val' = Take(b_it.out, b_val_size)
  /\ bpc' = "split"
  /\ UNCHANGED <<b_corpus, b_seed, b_val_size, b_op_seed, b_it, b_train, notBuffer>>

BufferNext ==
  \/ StartTrainIteration
  \/ FillBuffer
  \/ EmitElement
  \/ EndTrainIteration
  \/ EndValIteration

BufferIdle ==
  /\ bpc = "idle"
  /\ b_corpus = <<>>
  /\ b_seed = NoSeed
  /\ b_val_size = 0
  /\ b_op_seed = NoSeed
  /\ b_it = <<>>
  /\ b_train = <<>>
  /\ b_val = <<>>

(***************************************************************************)
(* Claims about extract_patches and reconstruct_image (SpecTile)           *)
(***************************************************************************)
\* The block of img that grid position (i, j), 0-based, covers when every
\* block is ph x pw.
Block(img, i, j, ph, pw) ==
  [a \in 1..ph |-> [b \in 1..pw |-> img[i * ph + a][j * pw + b]]]

\* C1 (as amended): on the fixed 3 x 4 grid the round trip is exact. For
\* every image whose height is divisible by 3 and whose width is divisible
\* by 4, extract_patches does not fail, and reconstruct_image on its 12
\* patches with grid shape (3, 4) returns the image, the block at
\* (row, col) being the patch at index row * 4 + col.
C1_RoundTripOn3x4Grid ==
  (res[1] % 3 = 0 /\ res[2] % 4 = 0) =>
     /\ tpc # "shape_error"
     /\ (tpc \in {"reconstructed", "index_error"} /\ patch_size = <<3, 4>>) =>
          /\ tpc = "reconstructed"
          /\ restored = image
          /\ \A row \in 0..2 : \A col \in 0..3 :
               Block(restored, row, col, res[1] \div 3, res[2] \div 4)
                  = patches[row * 4 + col + 1]

\* C1 witness: a 6 x 8 image of pairwise distinct pixels went through
\* extract_patches and reconstruct_image with grid shape (3, 4).
C1_Witness ==
  /\ tpc = "reconstructed"
  /\ res = <<6, 8>>
  /\ image = RampImage(6, 8, 48)
  /\ patch_size = <<3, 4>>
  /\ Len(patches) = 12

\* C1 (as claimed): for every grid shape (R, C) whose cell size divides the
\* image's dimensions, reconstruct_image with grid shape (R, C) on what
\* extract_patches returned gives back the image.
C1_RoundTripOnEveryGrid ==
  (/\ tpc \in {"reconstructed", "index_error"}
   /\ res[1] % patch_size[1] = 0
   /\ res[2] % patch_size[2] = 0) =>
     (tpc = "reconstructed" /\ restored = image)

\* C7: tiling an image whose height is not divisible by the grid's row
\* count (3) or whose width is not divisible by its column count (4) ends
\* in a shape error; extract_patches never returns patches for it.
C7_NonDivisibleIsShapeError ==
  (tpc # "start" /\ (res[1] % PATCH_ROWS # 0 \/ res[2] % PATCH_COLS # 0)) =>
     tpc = "shape_error"

(***************************************************************************)
(* Claims about the listing and the split (SpecLoad)                       *)
(***************************************************************************)
Elements(sequence) == {sequence[k] : k \in 1..Len(sequence)}

Occurrences(sequence, e) == Cardinality({k \in 1..Len(sequence) : sequence[k] = e})

\* C2: after the split, for every corpus and every val_size, Train and
\* Validation are disjoint and together hold every corpus element exactly
\* once: |Train| + |Validation| = |Corpus|.
C2_SplitIsPartition ==
  \A r \in Runs :
    lpc[r] = "split" =>
      /\ Elements(train_data[r]) \cap Elements(val_data[r]) = {}
      /\ Len(train_data[r]) + Len(val_data[r]) = Len(trainval_data[r])
      /\ \A e \in Elements(trainval_data[r]) :
           Occurrences(train_data[r] \o val_data[r], e) = 1

\* C2 witness: a split of a corpus of at least three elements with both
\* subsets non-empty.
C2_Witness ==
  \E r \in Runs :
    /\ lpc[r] = "split"
    /\ Len(trainval_data[r]) >= 3
    /\ Len(val_data[r]) >= 1
    /\ Len(train_data[r]) >= 2

\* C3: two constructions given the same seed (an integer: None asks for an
\* unseeded shuffle) and the same shard listing order assign the same
\* corpus elements to Train and the same to Validation.
C3_SameSeedSameSplit ==
  (/\ lpc[1] = "split" /\ lpc[2] = "split"
   /\ seed[1] # NoSeed
   /\ seed[1] = seed[2]
   /\ tf_trainval[1] = tf_trainval[2]) =>
     /\ Elements(train_data[1]) = Elements(train_data[2])
     /\ Elements(val_data[1]) = Elements(val_data[2])

\* C3 witness: both constructions are done, with the same integer seed and
\* the same listing order, on a corpus the split divides.
C3_Witness ==
  /\ lpc[1] = "split" /\ lpc[2] = "split"
  /\ seed[1] # NoSeed
  /\ seed[1] = seed[2]
  /\ tf_trainval[1] = tf_trainval[2]
  /\ Len(tf_trainval[1]) >= 2
  /\ Len(val_data[1]) >= 1
  /\ Len(train_data[1]) >= 1

IsSorted(names) == \A a, b \in 1..Len(names) : a < b => names[a] < names[b]

\* C6: whatever order the store lists the blobs in, the file names handed
\* to the record reader are in the one sorted order, so two listings of
\* the same objects hand over the same sequence.
C6_ListingOrderIsFixed ==
  /\ \A r \in Runs : lpc[r] # "start" => IsSorted(tf_trainval[r])
  /\ (lpc[1] # "start" /\ lpc[2] # "start") => tf_trainval[1] = tf_trainval[2]

\* C8: a construction with val_size greater than or equal to the corpus
\* size ends in a configuration error: it never completes, and never
\* yields an empty Train stream.
C8_ValSizeTooLargeIsError ==
  \A r \in Runs :
    lpc[r] = "split" =>
      /\ val_size < Len(trainval_data[r])
      /\ train_data[r] # <<>>

(***************************************************************************)
(* Claims about the augmentation (SpecAug)                                 *)
(***************************************************************************)
\* C4: for every training pair and every flip decision, horizontal or
\* vertical, the blurred and the sharp image receive the same transform:
\* both are flipped along the same axis or both are left unchanged.
C4_PairGetsSameTransform ==
  /\ apc \in {"hflipped", "vflipped"} =>
       IF do_flip.h
       THEN /\ aug_h.blur = FlipLeftRight(aug_in.blur)
            /\ aug_h.sharp = FlipLeftRight(aug_in.sharp)
       ELSE /\ aug_h.blur = aug_in.blur
            /\ aug_h.sharp = aug_in.sharp
  /\ apc = "vflipped" =>
       IF do_flip.v
       THEN /\ aug_v.blur = FlipUpDown(aug_h.blur)
            /\ aug_v.sharp = FlipUpDown(aug_h.sharp)
       ELSE /\ aug_v.blur = aug_h.blur
            /\ aug_v.sharp = aug_h.sharp

\* C4 witness: under a given seed, a pair of 2 x 2 images of pairwise
\* distinct pixels was flipped by both maps.
C4_Witness ==
  /\ apc = "vflipped"
  /\ aug_seed # NoSeed
  /\ aug_in.blur = RampImage(2, 2, 4)
  /\ aug_in.sharp = RampImage(2, 2, 4)
  /\ do_flip.h /\ do_flip.v
  /\ aug_h.sharp # aug_in.sharp
  /\ aug_v.sharp # aug_h.sharp

\* C13: the horizontal-flip decision and the vertical-flip decision of a
\* training pair are separate draws, neither determining the other, so
\* outcomes with exactly one flip occur: under a given seed, when a pass
\* of MaxAugCalls pairs has gone through both maps, some pair was flipped
\* along one axis and not along the other.
C13_FlipDecisionsAreSeparateDraws ==
  (apc = "vflipped" /\ aug_seed # NoSeed /\ v_calls = MaxAugCalls) =>
     \E o \in outcomes : o.h # o.v

(***************************************************************************)
(* Claims about the streams (SpecStream)                                   *)
(***************************************************************************)
\* C5: with steps_per_epoch = subset_size // batch_size, every batch the
\* train and validation streams deliver to the loop has exactly batch_size
\* elements: the final partial batch of an epoch never reaches it.
C5_EveryDeliveredBatchIsFull ==
  \A s \in Streams :
    Processing(s) => Len(fit.batch) = stream_cfg.batch_size

\* C9: the returned streams prefetch.  While the loop processes a batch
\* and the stream has another, that one is ready or being assembled in
\* the background, and never more than the prefetch depth are ready.
C9_StreamsPrefetch ==
  \A s \in Streams :
    /\ fit.phase # "start" => HasPrefetch(returned[s])
    /\ Processing(s) =>
         /\ HasNextBatch(iters[s], subsets[s], stream_cfg) =>
              \/ Len(iters[s].buffer) >= 1
              \/ Len(iters[s].buffer) < PrefetchDepth(returned[s])
         /\ Len(iters[s].buffer) <= PrefetchDepth(returned[s])

(***************************************************************************)
(* Claims about preproc_cifar (SpecCifar)                                  *)
(***************************************************************************)
\* C10: preproc_cifar is reproducible: whatever the interleaving of the
\* train-build and test-build workers, each image index of each subset is
\* blurred with the same standard deviation in every run.
C10_SameStdDevInEveryRun ==
  (cpc[1] = "done" /\ cpc[2] = "done") =>
     /\ cifar_out[1].trainX = cifar_out[2].trainX
     /\ cifar_out[1].testX = cifar_out[2].testX

(***************************************************************************)
(* Claims about extract_patches_from_dataset (SpecPatch)                   *)
(***************************************************************************)
\* C11: after extract_patches_from_dataset the k-th emitted pair consists,
\* for every k and every corpus, of the blurred patch and the sharp patch
\* taken from the same source record and the same grid position: the two
\* patches have one shape, and at every pixel the first shows the blurred
\* side and the second the sharp side of one record at one source position.
C11_PatchPairsCorrespond ==
  ppc = "zipped" =>
    \A k \in 1..Len(zipped) :
      LET x == zipped[k][1]
          y == zipped[k][2]
      IN /\ Height(x) = Height(y)
         /\ Width(x) = Width(y)
         /\ \A r \in 1..Height(x) : \A c \in 1..Width(x) :
              /\ x[r][c][1] = "blur"
              /\ y[r][c][1] = "sharp"
              /\ x[r][c][2] = y[r][c][2]
              /\ x[r][c][3] = y[r][c][3]

\* C11 witness: two files of two records each, read two at a time, gave
\* 48 patch pairs, the first 12 from the first record and the next 12
\* from the first record of the other file.
C11_Witness ==
  /\ ppc = "zipped"
  /\ p_cycle = 2
  /\ p_bucket = <<2, 2>>
  /\ Len(zipped) = 4 * PATCH_COUNT
  /\ zipped[1][1][1][1][2] # zipped[PATCH_COUNT + 1][1][1][1][2]
  /\ zipped[1][1][1][1][2][1] # zipped[PATCH_COUNT + 1][1][1][1][2][1]
  /\ zipped[2][1][1][1][3] # zipped[1][1][1][1][3]

(***************************************************************************)
(* Claims about the split across epochs (SpecEpoch)                        *)
(***************************************************************************)
\* C12: the split shuffle happens once.  Across all epochs of the repeated
\* streams the set of corpus elements in Train and the set in Validation
\* never change: every pass of a stream holds the elements its first pass
\* held, each as often, and the per-epoch reshuffle only reorders them.
C12_MembershipFixedAcrossEpochs ==
  \A s \in Streams :
    passes[s] >= 1 =>
      /\ Elements(last_pass[s]) = Elements(first_pass[s])
      /\ Len(last_pass[s]) = Len(first_pass[s])
      /\ \A e \in Elements(first_pass[s]) :
           Occurrences(last_pass[s], e) = Occurrences(first_pass[s], e)

\* C12 witness: both streams have made a second pass, and the second pass
\* of Train has its elements in another order than the first.
C12_Witness ==
  /\ passes["train"] = 2
  /\ passes["val"] = 2
  /\ Len(first_pass["val"]) >= 1
  /\ Len(first_pass["train"]) >= 2
  /\ last_pass["train"] # first_pass["train"]

(***************************************************************************)
(* Claims about the buffer of the split shuffle (SpecBuffer)               *)
(***************************************************************************)
\* C14: the split shuffle has a buffer of 50 elements, so the element it
\* emits at output position p comes from an input position of at most
\* p + 49; hence, for every seed, the Validation subset holds only elements
\* among the first val_size + 49 of the corpus, and every element at a
\* later position is in Train.
C14_ValidationComesFromBufferWindow ==
  /\ bpc # "idle" =>
       \A p \in 1..Len(b_it.out) : b_it.out[p] <= p + 49
  /\ \A e \in Elements(b_val) : e <= b_val_size + 49
  /\ bpc = "split" =>
       \A e \in Elements(b_corpus) :
         e > b_val_size + 49 => e \in Elements(b_train)

\* C14 witness: a corpus of 60 elements was split with val_size = 2 under
\* a given seed; Validation holds an element from beyond its own size, and
\* the elements 52 to 60 went to Train.
C14_Witness ==
  /\ bpc = "split"
  /\ b_seed # NoSeed
  /\ Len(b_corpus) = 60
  /\ b_val_size = 2
  /\ Len(b_val) = 2
  /\ \E e \in Elements(b_val) : e > b_val_size
  /\ 52..60 \subseteq Elements(b_train)

(***************************************************************************)
(* Specifications                                                          *)
(***************************************************************************)
TileSpecInit == TileInit /\ LoadIdle /\ AugIdle /\ StreamIdle /\ CifarIdle /\ PatchIdle /\ EpochIdle /\ BufferIdle
SpecTile == TileSpecInit /\ [][TileNext]_vars

LoadSpecInit == LoadInit /\ TileIdle /\ AugIdle /\ StreamIdle /\ CifarIdle /\ PatchIdle /\ EpochIdle /\ BufferIdle
SpecLoad == LoadSpecInit /\ [][LoadNext]_vars

AugSpecInit == AugInit /\ TileIdle /\ LoadIdle /\ StreamIdle /\ CifarIdle /\ PatchIdle /\ EpochIdle /\ BufferIdle
SpecAug == AugSpecInit /\ [][AugNext]_vars

StreamSpecInit == StreamInit /\ TileIdle /\ LoadIdle /\ AugIdle /\ CifarIdle /\ PatchIdle /\ EpochIdle /\ BufferIdle
SpecStream == StreamSpecInit /\ [][StreamNext]_vars

CifarSpecInit == CifarInit /\ TileIdle /\ LoadIdle /\ AugIdle /\ StreamIdle /\ PatchIdle /\ EpochIdle /\ BufferIdle
SpecCifar == CifarSpecInit /\ [][CifarNext]_vars

PatchSpecInit == PatchInit /\ TileIdle /\ LoadIdle /\ AugIdle /\ StreamIdle /\ CifarIdle /\ EpochIdle /\ BufferIdle
SpecPatch == PatchSpecInit /\ [][PatchNext]_vars

EpochSpecInit == EpochInit /\ TileIdle /\ LoadIdle /\ AugIdle /\ StreamIdle /\ CifarIdle /\ PatchIdle /\ BufferIdle
SpecEpoch == EpochSpecInit /\ [][EpochNext]_vars

BufferSpecInit == BufferInit /\ TileIdle /\ LoadIdle /\ AugIdle /\ StreamIdle /\ CifarIdle /\ PatchIdle /\ EpochIdle
SpecBuffer == BufferSpecInit /\ [][BufferNext]_vars

=============================================================================
